---- MODULE Spec2Model ----
(***************************************************************************)
(* wsimorph: the WSI accessor (src/wsimorph/images/_wsi.py) and the Tile   *)
(* value object (src/wsimorph/images/_tile.py).                            *)
(*                                                                         *)
(* Python floats are modelled as exact rationals plus NaN (rounding is not *)
(* modelled; infinities are not modelled).  Python values carry their type *)
(* tag, so that isinstance() is a test on the tag; bool is a subtype of    *)
(* int, and an int may be too large for float().                           *)
(***************************************************************************)
EXTENDS Integers, Sequences, FiniteSets, TLC

\* ------------------------------------------------------------------ bounds
MaxLevelCount == 2     \* deepest pyramid of a sample slide
MaxLevelArg == 2       \* level arguments range over -1 .. MaxLevelArg
MaxOpens == 2          \* WSI constructor calls that reach OpenSlide
MaxWrites == 1         \* writes of the caller into the buffer it passed
MaxChannels == 2       \* largest last axis of a sample buffer

\* ------------------------------------------------------------------ floats
RECURSIVE GCD(_, _)
GCD(a, b) == IF b = 0 THEN a ELSE GCD(b, a % b)

Abs(n) == IF n < 0 THEN -n ELSE n

\* The float n/d (d > 0), in lowest terms so that equal values are equal records.
F(n, d) ==
    LET g == GCD(Abs(n), d)
    IN  [nan |-> FALSE, n |-> n \div g, d |-> d \div g]

NaN == [nan |-> TRUE, n |-> 0, d |-> 1]
Zero == F(0, 1)
One == F(1, 1)

\* IEEE comparisons: every ordered comparison with NaN is false.
FEq(a, b) == ~a.nan /\ ~b.nan /\ a.n * b.d = b.n * a.d
FGt(a, b) == ~a.nan /\ ~b.nan /\ a.n * b.d > b.n * a.d
FLt(a, b) == ~a.nan /\ ~b.nan /\ a.n * b.d < b.n * a.d
FLe(a, b) == ~a.nan /\ ~b.nan /\ a.n * b.d <= b.n * a.d

FMul(a, b) == IF a.nan \/ b.nan THEN NaN ELSE F(a.n * b.n, a.d * b.d)

\* a / b for b # 0.
FDiv(a, b) ==
    IF a.nan \/ b.nan THEN NaN
    ELSE IF b.n < 0 THEN F(-(a.n * b.d), a.d * (-b.n))
    ELSE F(a.n * b.d, a.d * b.n)

\* ----------------------------------------------------------- Python values
PyInt(i) == [t |-> "int", i |-> i, f |-> Zero]
PyBool(b) == [t |-> "bool", i |-> (IF b THEN 1 ELSE 0), f |-> Zero]
PyStr == [t |-> "str", i |-> 0, f |-> Zero]
PyFloat(x) == [t |-> "float", i |-> 0, f |-> x]
\* An int beyond the float range, such as 10**400.
PyBigInt == [t |-> "bigint", i |-> 0, f |-> Zero]

isinstance_int(v) == v.t \in {"int", "bool", "bigint"}
isinstance_float(v) == v.t = "float"

\* Outcomes of an operation: a return or a raised exception.
Raise(kind, msg) == [kind |-> kind, msg |-> msg, val |-> Zero]
Return(x) == [kind |-> "ok", msg |-> "", val |-> x]


\* ------------------------------------------------------------------- paths
\* A path argument: a str (its directory parts, its file stem and suffix) or not.
StrPath(parts, stem, suffix) ==
    [t |-> "str", parts |-> parts, stem |-> stem, suffix |-> suffix]
NonStrPath == [t |-> "int", parts |-> <<>>, stem |-> "", suffix |-> ""]

PathArgs ==
    { StrPath(<<"tests", "_test_data">>, "small_tiff", ".tiff"),
      StrPath(<<"tests", "_test_data">>, "nonexistent", ".tiff"),
      NonStrPath }

\* Path(path).resolve(): the relative path made absolute.
resolve(p) == [p EXCEPT !.parts = <<"cwd">> \o p.parts]
\* Path.exists(): the sample filesystem holds every file but "nonexistent".
exists(p) == p.stem # "nonexistent"
\* Path.name and Path.stem.
path_name(p) == <<p.stem, p.suffix>>
path_stem(p) == p.stem

\* ------------------------------------------------------------------ slides
Pow2(k) == IF k = 0 THEN 1 ELSE IF k = 1 THEN 2 ELSE IF k = 2 THEN 4 ELSE 8

Absent == [some |-> FALSE, s |-> ""]
Present(s) == [some |-> TRUE, s |-> s]

MppStrings == {"0.499", "0.25", "0", "-0.5", "nan", "abc"}
PropKeys == {"openslide.vendor", "openslide.mpp-x", "openslide.mpp-y"}

\* What OpenSlide finds in a file: an unreadable file, or a slide with its
\* property map (a key may be absent), its pyramid, and whether the library
\* fails while the properties are being read ("meta", "mpp") or not ("none").
SlideFile(n, vendor, mx, my, corrupt) ==
    [ readable |-> TRUE,
      corrupt |-> corrupt,
      properties |-> [k \in PropKeys |->
                        IF k = "openslide.vendor" THEN vendor
                        ELSE IF k = "openslide.mpp-x" THEN mx ELSE my],
      level_count |-> n,
      dimensions |-> <<8, 4>>,
      level_dimensions |-> [k \in 1..n |-> <<8 \div Pow2(k - 1), 4 \div Pow2(k - 1)>>],
      level_downsamples |-> [k \in 1..n |-> F(Pow2(k - 1), 1)] ]

NotASlide == [SlideFile(1, Absent, Absent, Absent, "none") EXCEPT !.readable = FALSE]

MppProps == {Absent} \cup {Present(s) : s \in MppStrings}

\* The sample slides with an even number of levels name their vendor.
SampleVendor(n) == IF n % 2 = 0 THEN Present("aperio") ELSE Absent

\* Every combination of the two pixel-size properties, for each pyramid; and
\* slides on which the library fails while it reads.
Slides ==
    { SlideFile(n, SampleVendor(n), mx, my, "none") :
        n \in 1..MaxLevelCount, mx \in MppProps, my \in MppProps }
    \cup { SlideFile(1, Absent, Present("0.499"), Present("0.499"), c) : c \in {"meta", "mpp"} }
    \cup {NotASlide}

\* The few slides the whole-program specification draws from.
SlidesCore ==
    { f \in Slides :
        \/ ~f.readable
        \/ f.corrupt # "none"
        \/ /\ f.properties["openslide.mpp-x"] = Present("0.499")
           /\ f.properties["openslide.mpp-y"] = Present("0.499")
        \/ /\ f.properties["openslide.mpp-x"] = Present("abc")
           /\ f.properties["openslide.mpp-y"] = Absent
           /\ f.level_count = 1
        \/ /\ f.properties["openslide.mpp-x"] = Absent
           /\ f.properties["openslide.mpp-y"] = Absent
           /\ f.level_count = 1 }

\* slide.properties.get(key): the value, or None when the key is absent.
properties_get(slide, key) == slide.properties[key]

\* float(s) of a property string: the strings float() accepts, and their values.
float_accepts(s) == s \in {"0.499", "0.25", "0", "-0.5", "nan"}
float_of_str(s) ==
    CASE s = "0.499" -> F(499, 1000)
      [] s = "0.25" -> F(1, 4)
      [] s = "0" -> Zero
      [] s = "-0.5" -> F(-1, 2)
      [] OTHER -> NaN

\* ------------------------------------------------------------ WSI objects
\* The caller's variable before any WSI was constructed.
NoWSI ==
    [ cls |-> "NoneType", path |-> NonStrPath, name |-> <<"", "">>, stem |-> "",
      vendor |-> "", level_count |-> 0, dimensions |-> <<0, 0>>,
      level_dimensions |-> <<>>, level_downsamples |-> <<>>,
      mpp_y |-> Zero, mpp_x |-> Zero, mpp |-> Zero ]

\* A freshly allocated WSI whose __init__ has assigned nothing yet.
NewWSI == [NoWSI EXCEPT !.cls = "WSI"]

NoArg == PyInt(0)

\* ------------------------------------------------------------------ arrays
\* A numpy array: its dtype, its shape and its elements (flattened).  Elements
\* are kept as numbers whatever the dtype; the dtype says what they are.
Arr(dtype, shape, elems) == [t |-> "ndarray", dtype |-> dtype, shape |-> shape, elems |-> elems]
\* An image argument that is no array (the tests pass 123).
NotArray == [t |-> "int", dtype |-> "", shape |-> <<>>, elems |-> <<>>]

ndim(a) == Len(a.shape)

RECURSIVE Prod(_)
Prod(shape) == IF shape = <<>> THEN 1 ELSE Head(shape) * Prod(Tail(shape))

Uint8Max == 255
Uint16Max == 65535

FloatDTypes == {"float16", "float32", "float64"}
\* np.issubdtype(dtype, np.floating)
issubdtype_floating(dtype) == dtype \in FloatDTypes

\* image.astype(np.float32) / k: a new float32 array, every element divided by k.
astype_float32_div(a, k) ==
    [a EXCEPT !.dtype = "float32",
              !.elems = [i \in DOMAIN a.elems |-> FDiv(a.elems[i], F(k, 1))]]

\* Lines 78-81: the two dtype branches, one after the other.
normalize_dtype(image) ==
    LET image1 == IF image.dtype = "uint8" THEN astype_float32_div(image, Uint8Max) ELSE image
    IN  IF image1.dtype = "uint16" THEN astype_float32_div(image1, Uint16Max) ELSE image1

Elems(a) == {a.elems[i] : i \in DOMAIN a.elems}
HasNaN(a) == \E x \in Elems(a) : x.nan

\* ndarray.max() and ndarray.min() of a non-empty array: NaN if any element is NaN.
arr_max(a) ==
    IF HasNaN(a) THEN NaN
    ELSE CHOOSE x \in Elems(a) : \A y \in Elems(a) : FLe(y, x)
arr_min(a) ==
    IF HasNaN(a) THEN NaN
    ELSE CHOOSE x \in Elems(a) : \A y \in Elems(a) : FLe(x, y)

\* ----------------------------------------------------------------- records
\* An argument for parent_wsi that is no WSI (the tests pass 123).
NotWSIArg == [NoWSI EXCEPT !.cls = "int"]

TArgs(image, y_start, x_start, level, parent_wsi) ==
    [image |-> image, y_start |-> y_start, x_start |-> x_start, level |-> level,
     parent_wsi |-> parent_wsi]

NoTile ==
    [cls |-> "NoneType", image |-> "arg", y_start |-> NoArg, x_start |-> NoArg,
     level |-> NoArg, parent_wsi |-> NoWSI, num_channels |-> 0]

NoTargs == TArgs(NotArray, NoArg, NoArg, NoArg, NoWSI)


\* The last operation: op names it, m and l are the arguments of
\* pixels_from_microns, a those of Tile(...), kind/msg/val the outcome.
Res(op, o, m, l, a) ==
    [op |-> op, kind |-> o.kind, msg |-> o.msg, val |-> o.val, m |-> m, l |-> l, a |-> a]
WSIRes(o) == Res("WSI", o, NoArg, NoArg, NoTargs)
PfmRes(o, m, l) == Res("pixels_from_microns", o, m, l, NoTargs)

TileRes(r, a) == Res("Tile", [kind |-> r.kind, msg |-> r.msg, val |-> Zero], NoArg, NoArg, a)

\* ------------------------------------------------------------------- state
VARIABLES
    pc,         \* position inside WSI.__init__; "idle" when no constructor runs
    arg,        \* the path argument of the running (or last) WSI.__init__
    self,       \* the WSI object under construction
    slide,      \* what the OpenSlide handle of the running (or last) call reads
    slideOpen,  \* whether an OpenSlide handle is open
    fsTouched,  \* whether the running (or last) WSI.__init__ reached the filesystem
    libCalled,  \* whether the running (or last) WSI.__init__ called OpenSlide
    opens,      \* how many times OpenSlide was called in all
    wsi,        \* the caller's WSI object (NoWSI before the first)
    wsiSrc,     \* the slide the caller's WSI object was read from
    tile,       \* the caller's Tile object (NoTile before the first)
    tile0,      \* the Tile's observable fields as they were when it was constructed
    heap,       \* arrays: "arg" the caller's buffer, "conv" the one __init__ made
    writes,     \* how many times the caller wrote into its buffer
    result      \* the last operation: its name, its arguments and its outcome

wsiVars == <<pc, arg, self, slide, slideOpen, fsTouched, libCalled, opens, wsi, wsiSrc>>
tileVars == <<tile, tile0, heap, writes>>
vars == <<pc, arg, self, slide, slideOpen, fsTouched, libCalled, opens, wsi, wsiSrc,
          tile, tile0, heap, writes, result>>

\* --------------------------------------------------------- WSI.__init__
\* The handle after an exception has left the `with OpenSlide(...)` block.
with_exit_on_error_leak(open) == open
with_exit_on_error(open) == FALSE

\* Lines 60-62: the path fields.
set_path(w, wsi_path) ==
    [w EXCEPT !.path = wsi_path, !.name = path_name(wsi_path), !.stem = path_stem(wsi_path)]

\* Lines 64-69: vendor (default "Unknown") and the pyramid.
set_meta(w, s) ==
    LET vendor == properties_get(s, "openslide.vendor")
    IN  [w EXCEPT !.vendor = IF vendor.some THEN vendor.s ELSE "Unknown",
                  !.level_count = s.level_count,
                  !.dimensions = s.dimensions,
                  !.level_dimensions = s.level_dimensions,
                  !.level_downsamples = s.level_downsamples]

\* Lines 72-73: float(prop) if prop is not None else float(0).
mpp_of_prop(prop) == IF prop.some THEN float_of_str(prop.s) ELSE Zero

\* Lines 74-77: the unified pixel spacing.
derive_mpp_any(mpp_x, mpp_y) == IF FGt(mpp_x, Zero) THEN mpp_x ELSE Zero
derive_mpp(mpp_x, mpp_y) ==
    IF FEq(mpp_x, mpp_y) /\ FGt(mpp_x, Zero) THEN mpp_x ELSE Zero

set_mpp(w, s) ==
    LET mpp_y == mpp_of_prop(properties_get(s, "openslide.mpp-y"))
        mpp_x == mpp_of_prop(properties_get(s, "openslide.mpp-x"))
    IN  [w EXCEPT !.mpp_y = mpp_y, !.mpp_x = mpp_x, !.mpp = derive_mpp(mpp_x, mpp_y)]

\* __init__ has ended (returned or raised): its locals are gone.
NoSelf == NoWSI
NoSlide == NotASlide

\* Lines 55-56: the call enters __init__ and checks the type of `path`.
WSIInit_Enter_Unchecked(path) ==
    /\ pc = "idle"
    /\ opens < MaxOpens
    /\ arg' = path
    /\ fsTouched' = FALSE
    /\ libCalled' = FALSE
    /\ pc' = "resolve"
    /\ self' = NewWSI
    /\ result' = WSIRes(Raise("running", ""))
    /\ UNCHANGED <<slide, slideOpen, opens, wsi, wsiSrc, tileVars>>

WSIInit_Enter(path) ==
    /\ pc = "idle"
    /\ opens < MaxOpens
    /\ arg' = path
    /\ fsTouched' = FALSE
    /\ libCalled' = FALSE
    /\ IF path.t # "str"
       THEN /\ pc' = "idle"
            /\ self' = NoSelf
            /\ result' = WSIRes(Raise("TypeError", "Path must be a string."))
       ELSE /\ pc' = "resolve"
            /\ self' = NewWSI
            /\ result' = WSIRes(Raise("running", ""))
    /\ UNCHANGED <<slide, slideOpen, opens, wsi, wsiSrc, tileVars>>

\* Lines 57-62: resolve the path, check that it exists, store the path fields.
WSIInit_Resolve ==
    /\ pc = "resolve"
    /\ fsTouched' = TRUE
    /\ LET wsi_path == resolve(arg)
       IN  IF ~exists(wsi_path)
           THEN /\ pc' = "idle"
                /\ self' = NoSelf
                /\ result' = WSIRes(Raise("FileNotFoundError", "File not found."))
           ELSE /\ pc' = "open"
                /\ self' = set_path(self, wsi_path)
                /\ result' = result
    /\ UNCHANGED <<arg, slide, slideOpen, libCalled, opens, wsi, wsiSrc, tileVars>>

\* Line 63: OpenSlide(wsi_path) on the file f found at the path.  A file that
\* is no slide makes OpenSlide raise, and no handle exists.
WSIInit_Open(f) ==
    /\ pc = "open"
    /\ libCalled' = TRUE
    /\ opens' = opens + 1
    /\ IF ~f.readable
       THEN /\ pc' = "idle"
            /\ self' = NoSelf
            /\ UNCHANGED <<slide, slideOpen>>
            /\ result' = WSIRes(Raise("OpenSlideUnsupportedFormatError",
                                      "Unsupported or missing image file"))
       ELSE /\ pc' = "read_meta"
            /\ slide' = f
            /\ slideOpen' = TRUE
            /\ UNCHANGED <<self, result>>
    /\ UNCHANGED <<arg, fsTouched, wsi, wsiSrc, tileVars>>

\* Lines 64-69 inside the `with` block; a failing read leaves the block.
WSIInit_ReadMeta ==
    /\ pc = "read_meta"
    /\ IF slide.corrupt = "meta"
       THEN /\ pc' = "idle"
            /\ slideOpen' = with_exit_on_error(slideOpen)
            /\ slide' = NoSlide
            /\ self' = NoSelf
            /\ result' = WSIRes(Raise("OpenSlideError", "library error"))
       ELSE /\ pc' = "read_mpp"
            /\ self' = set_meta(self, slide)
            /\ UNCHANGED <<slide, slideOpen, result>>
    /\ UNCHANGED <<arg, fsTouched, libCalled, opens, wsi, wsiSrc, tileVars>>

\* Lines 70-77 inside the `with` block: both properties are read, then mpp-y
\* and mpp-x are converted by float(), which rejects a non-numeric string.
WSIInit_ReadMpp ==
    /\ pc = "read_mpp"
    /\ LET mpp_y == properties_get(slide, "openslide.mpp-y")
           mpp_x == properties_get(slide, "openslide.mpp-x")
       IN  IF slide.corrupt = "mpp"
           THEN /\ pc' = "idle"
                /\ slideOpen' = with_exit_on_error(slideOpen)
                /\ slide' = NoSlide
                /\ self' = NoSelf
                /\ result' = WSIRes(Raise("OpenSlideError", "library error"))
           ELSE IF \/ mpp_y.some /\ ~float_accepts(mpp_y.s)
                   \/ mpp_x.some /\ ~float_accepts(mpp_x.s)
           THEN /\ pc' = "idle"
                /\ slideOpen' = with_exit_on_error(slideOpen)
                /\ slide' = NoSlide
                /\ self' = NoSelf
                /\ result' = WSIRes(Raise("ValueError", "could not convert string to float"))
           ELSE /\ pc' = "exit"
                /\ self' = set_mpp(self, slide)
                /\ UNCHANGED <<slide, slideOpen, result>>
    /\ UNCHANGED <<arg, fsTouched, libCalled, opens, wsi, wsiSrc, tileVars>>

\* Line 63, leaving the `with` block normally: the handle is closed, __init__
\* returns and the caller holds the new object.
WSIInit_Exit ==
    /\ pc = "exit"
    /\ pc' = "idle"
    /\ slideOpen' = FALSE
    /\ wsi' = self
    /\ wsiSrc' = slide
    /\ slide' = NoSlide
    /\ self' = NoSelf
    /\ result' = WSIRes(Return(Zero))
    /\ UNCHANGED <<arg, fsTouched, libCalled, opens, tileVars>>

\* The object WSI(path) returns for a slide that reads without error.
ConstructedWSI(path, s) == set_mpp(set_meta(set_path(NewWSI, resolve(path)), s), s)

\* --------------------------------------------------- WSI.pixels_from_microns
\* float(microns) of an int: an int beyond the float range raises OverflowError.
float_of_int(v) ==
    IF v.t = "bigint"
    THEN Raise("OverflowError", "int too large to convert to float")
    ELSE Return(F(v.i, 1))

\* Lines 101-114.
pfm_outcome(w, microns0, level) ==
    LET widened == IF isinstance_int(microns0) THEN float_of_int(microns0) ELSE Return(Zero)
        microns == IF isinstance_int(microns0) THEN PyFloat(widened.val) ELSE microns0
    IN  IF isinstance_int(microns0) /\ widened.kind # "ok" THEN widened
        ELSE IF ~isinstance_float(microns) THEN Raise("TypeError", "Microns must be a float.")
        ELSE IF ~isinstance_int(level) THEN Raise("TypeError", "Level must be an integer.")
        ELSE IF level.i < 0 \/ level.i >= w.level_count
        THEN Raise("ValueError",
                   "Level must be greater than or equal to zero and less than the level count of the WSI.")
        ELSE IF FLe(microns.f, Zero) THEN Raise("ValueError", "Microns must be greater than zero.")
        ELSE IF FEq(w.mpp, Zero) THEN Raise("ValueError", "WSI has no pixel size information.")
        ELSE Return(FDiv(microns.f, FMul(w.mpp, w.level_downsamples[level.i + 1])))

\* A variant that opens the slide again to read the pixel size.
pixels_from_microns_reread(microns, level) ==
    /\ pc = "idle"
    /\ wsi.cls = "WSI"
    /\ opens' = opens + 1
    /\ result' = PfmRes(pfm_outcome(set_mpp(wsi, wsiSrc), microns, level), microns, level)
    /\ UNCHANGED <<pc, arg, self, slide, slideOpen, fsTouched, libCalled, wsi, wsiSrc, tileVars>>

pixels_from_microns(microns, level) ==
    /\ pc = "idle"
    /\ wsi.cls = "WSI"
    /\ result' = PfmRes(pfm_outcome(wsi, microns, level), microns, level)
    /\ UNCHANGED <<wsiVars, tileVars>>

MicronsArgs ==
    { PyInt(123), PyInt(0), PyInt(-1), PyFloat(F(1, 2)), PyFloat(F(-1, 2)), PyFloat(NaN),
      PyStr, PyBigInt }
LevelArgs == {PyInt(i) : i \in -1..MaxLevelArg} \cup {PyStr, PyBool(TRUE)}

\* -------------------------------------------------------------- Tile.__init__
\* Lines 58-83: the checks in the order of the code, and the normalized image.
\* image is the array __init__ ends with; fresh says whether it is a new array
\* (astype made it) rather than the caller's own.
TRaise(kind, msg, image) == [kind |-> kind, msg |-> msg, image |-> image, fresh |-> FALSE]

tile_init(a) ==
    IF a.image.t # "ndarray" THEN TRaise("TypeError", "Image must be a numpy array.", a.image)
    ELSE IF ndim(a.image) # 3 THEN TRaise("ValueError", "Image must be a 3D numpy array.", a.image)
    ELSE IF ~isinstance_int(a.y_start) THEN TRaise("TypeError", "Y start must be an integer.", a.image)
    ELSE IF ~(a.y_start.i >= 0)
    THEN TRaise("ValueError", "Y start must be greater than or equal to zero.", a.image)
    ELSE IF ~isinstance_int(a.x_start) THEN TRaise("TypeError", "X start must be an integer.", a.image)
    ELSE IF ~(a.x_start.i >= 0)
    THEN TRaise("ValueError", "X start must be greater than or equal to zero.", a.image)
    ELSE IF ~isinstance_int(a.level) THEN TRaise("TypeError", "Level must be an integer.", a.image)
    ELSE IF a.parent_wsi.cls # "WSI" THEN TRaise("TypeError", "Parent WSI must be a WSI object.", a.image)
    ELSE IF a.level.i < 0 \/ a.level.i >= a.parent_wsi.level_count
    THEN TRaise("ValueError",
                "Level must be greater than or equal to zero and less than the level count of the parent WSI.",
                a.image)
    ELSE LET image == normalize_dtype(a.image)
         IN  IF ~issubdtype_floating(image.dtype)
             THEN TRaise("TypeError", "Image must be a of a compatible dtype.", a.image)
             ELSE IF Prod(image.shape) = 0
             THEN TRaise("ValueError",
                         "zero-size array to reduction operation maximum which has no identity",
                         a.image)
             ELSE IF FGt(arr_max(image), One) \/ FLt(arr_min(image), Zero)
             THEN TRaise("ValueError", "Image must be normalized to [0, 1].", a.image)
             ELSE [kind |-> "ok", msg |-> "", image |-> image,
                   fresh |-> a.image.dtype \in {"uint8", "uint16"}]

\* What the Tile's properties return (lines 91-113): image is a reference into the heap.
TileView(t, h) ==
    [image |-> h[t.image], y_start |-> t.y_start, x_start |-> t.x_start, level |-> t.level,
     parent_wsi |-> t.parent_wsi, num_channels |-> t.num_channels]

\* Tile(image, y_start, x_start, level, parent_wsi): lines 58-89.  On failure no
\* object exists and the caller keeps what it had.
TileInit(a) ==
    /\ pc = "idle"
    /\ LET r == tile_init(a)
       IN  /\ result' = TileRes(r, a)
           /\ IF r.kind = "ok"
              THEN /\ heap' = [arg |-> a.image, conv |-> IF r.fresh THEN r.image ELSE NotArray]
                   /\ tile' = [cls |-> "Tile",
                               image |-> IF r.fresh THEN "conv" ELSE "arg",
                               y_start |-> a.y_start, x_start |-> a.x_start, level |-> a.level,
                               parent_wsi |-> a.parent_wsi,
                               num_channels |-> r.image.shape[3]]
                   /\ tile0' = TileView(tile', heap')
                   /\ writes' = 0
              ELSE UNCHANGED <<tile, tile0, heap, writes>>
    /\ UNCHANGED wsiVars

\* The caller writes v into element i of the buffer it passed: img[..., i] = v.
CallerWrites(i, v) ==
    /\ pc = "idle"
    /\ tile.cls = "Tile"
    /\ writes < MaxWrites
    /\ i \in DOMAIN heap.arg.elems
    /\ heap' = [heap EXCEPT !.arg.elems[i] = v]
    /\ writes' = writes + 1
    /\ result' = Res("write", Return(Zero), NoArg, NoArg, NoTargs)
    /\ UNCHANGED <<wsiVars, tile, tile0>>

\* ----------------------------------------------------------- sample inputs
DTypeValues(dtype) ==
    CASE dtype = "uint8" -> {F(0, 1), F(128, 1), F(Uint8Max, 1)}
      [] dtype = "uint16" -> {F(0, 1), F(Uint16Max, 1)}
      [] dtype = "int32" -> {F(0, 1), F(2, 1)}
      [] OTHER -> {F(-1, 2), Zero, F(1, 2), One, F(3, 2), NaN}

InputDTypes == {"uint8", "uint16", "int32", "float64"}

\* 3-axis buffers with 1..MaxChannels channels, an empty 3-axis buffer, 2-axis buffers.
Shapes == {<<1, 1, c>> : c \in 1..MaxChannels} \cup {<<0, 1, 3>>} \cup {<<1, 1>>}

ImageArgs ==
    UNION { { Arr(dt, sh, e) : e \in [1..Prod(sh) -> DTypeValues(dt)] } :
            dt \in InputDTypes, sh \in Shapes }
    \cup {NotArray}

StartArgs == {PyInt(0), PyInt(-1), PyStr, PyBool(TRUE)}

\* The arguments the whole-program specification draws from.
MicronsCore == {PyInt(123), PyStr}
LevelCore == {PyInt(0), PyInt(MaxLevelArg)}
ImagesCore ==
    { NotArray,
      Arr("uint8", <<1, 1, 1>>, <<F(Uint8Max, 1)>>),
      Arr("float64", <<1, 1, 1>>, <<F(1, 2)>>),
      Arr("float64", <<0, 1, 3>>, <<>>) }
StartCore == {PyInt(0), PyInt(-1)}
WriteValues == {Zero, F(3, 2)}

\* Slides that read without error, and the WSI objects constructed from them.
GoodSlides ==
    { f \in Slides :
        /\ f.readable
        /\ f.corrupt = "none"
        /\ \A k \in {"openslide.mpp-x", "openslide.mpp-y"} :
              f.properties[k].some => float_accepts(f.properties[k].s) }
TestPath == StrPath(<<"tests", "_test_data">>, "small_tiff", ".tiff")
IsotropicSlides ==
    { g \in GoodSlides : /\ g.properties["openslide.mpp-x"] = Present("0.499")
                         /\ g.properties["openslide.mpp-y"] = Present("0.499") }

TileArgs(w) ==
    { TArgs(image, y, x, l, p) :
        image \in ImageArgs, y \in StartArgs, x \in StartArgs, l \in LevelArgs,
        p \in {w, NotWSIArg} }

\* ---------------------------------------------------------- specifications
Init ==
    /\ pc = "idle"
    /\ arg = NonStrPath
    /\ self = NoSelf
    /\ slide = NoSlide
    /\ slideOpen = FALSE
    /\ fsTouched = FALSE
    /\ libCalled = FALSE
    /\ opens = 0
    /\ wsi = NoWSI
    /\ wsiSrc = NoSlide
    /\ tile = NoTile
    /\ heap = [arg |-> NotArray, conv |-> NotArray]
    /\ tile0 = TileView(tile, heap)
    /\ writes = 0
    /\ result = Res("none", Return(Zero), NoArg, NoArg, NoTargs)

\* The whole program: the caller constructs WSI objects, converts microns,
\* constructs Tiles from its buffers and writes into the buffer it passed.
Next ==
    \/ \E p \in PathArgs : WSIInit_Enter(p)
    \/ WSIInit_Resolve
    \/ \E f \in SlidesCore : WSIInit_Open(f)
    \/ WSIInit_ReadMeta
    \/ WSIInit_ReadMpp
    \/ WSIInit_Exit
    \/ \E m \in MicronsCore, l \in LevelCore : pixels_from_microns(m, l)
    \/ \E image \in ImagesCore, y \in StartCore, l \in LevelCore, p \in {wsi, NotWSIArg} :
          TileInit(TArgs(image, y, PyInt(0), l, p))
    \/ \E i \in 1..MaxChannels, v \in WriteValues : CallerWrites(i, v)

Spec == Init /\ [][Next]_vars

\* The WSI accessor alone, over every sample slide and argument.
NextWSI ==
    \/ \E p \in PathArgs : WSIInit_Enter(p)
    \/ WSIInit_Resolve
    \/ \E f \in Slides : WSIInit_Open(f)
    \/ WSIInit_ReadMeta
    \/ WSIInit_ReadMpp
    \/ WSIInit_Exit
    \/ \E m \in MicronsArgs, l \in LevelArgs : pixels_from_microns(m, l)

SpecWSI == Init /\ [][NextWSI]_vars

\* Tile construction alone: the caller holds a constructed WSI, and the
\* arguments of the one Tile(...) call are drawn in the initial state.
InitTile ==
    /\ pc = "idle"
    /\ arg = TestPath
    /\ self = NoSelf
    /\ slide = NoSlide
    /\ slideOpen = FALSE
    /\ fsTouched = TRUE
    /\ libCalled = TRUE
    /\ opens = 1
    /\ wsiSrc \in IsotropicSlides
    /\ wsi = ConstructedWSI(TestPath, wsiSrc)
    /\ tile = NoTile
    /\ heap = [arg |-> NotArray, conv |-> NotArray]
    /\ tile0 = TileView(tile, heap)
    /\ writes = 0
    /\ \E a \in TileArgs(wsi) : result = Res("Tile.call", Raise("running", ""), NoArg, NoArg, a)

NextTile ==
    \/ result.op = "Tile.call" /\ TileInit(result.a)
    \/ \E i \in 1..MaxChannels, v \in DTypeValues(heap.arg.dtype) : CallerWrites(i, v)

SpecTile == InitTile /\ [][NextTile]_vars

\* ------------------------------------------------------------------ claims
\* What a claim says an operation must raise: fails, and the error.
Claimed(kind, msg) == [fails |-> TRUE, kind |-> kind, msg |-> msg]
NoneClaimed == [fails |-> FALSE, kind |-> "", msg |-> ""]

IsInt(v) == v.t \in {"int", "bool", "bigint"}

\* The checks 1-11 of Tile(...) as the claim lists them; check 11 asks whether
\* some element of the normalized buffer is above 1 or below 0.
NormalizedElems(image) ==
    { IF image.dtype = "uint8" THEN F(x.n, 255)
      ELSE IF image.dtype = "uint16" THEN F(x.n, 65535) ELSE x : x \in Elems(image) }

ClaimedTileCheck(a) ==
    IF a.image.t # "ndarray" THEN Claimed("TypeError", "Image must be a numpy array.")
    ELSE IF Len(a.image.shape) # 3 THEN Claimed("ValueError", "Image must be a 3D numpy array.")
    ELSE IF ~IsInt(a.y_start) THEN Claimed("TypeError", "Y start must be an integer.")
    ELSE IF a.y_start.i < 0
    THEN Claimed("ValueError", "Y start must be greater than or equal to zero.")
    ELSE IF ~IsInt(a.x_start) THEN Claimed("TypeError", "X start must be an integer.")
    ELSE IF a.x_start.i < 0
    THEN Claimed("ValueError", "X start must be greater than or equal to zero.")
    ELSE IF ~IsInt(a.level) THEN Claimed("TypeError", "Level must be an integer.")
    ELSE IF a.parent_wsi.cls # "WSI" THEN Claimed("TypeError", "Parent WSI must be a WSI object.")
    ELSE IF a.level.i < 0 \/ a.level.i >= a.parent_wsi.level_count
    THEN Claimed("ValueError",
                 "Level must be greater than or equal to zero and less than the level count of the parent WSI.")
    ELSE IF a.image.dtype \notin ({"uint8", "uint16"} \cup FloatDTypes)
    THEN Claimed("TypeError", "Image must be a of a compatible dtype.")
    ELSE IF \E x \in NormalizedElems(a.image) : FGt(x, One) \/ FLt(x, Zero)
    THEN Claimed("ValueError", "Image must be normalized to [0, 1].")
    ELSE NoneClaimed

\* C1: Tile(...) reports the first failing check of the fixed order 1-11, for
\* every combination of arguments.
C1_TileFirstFailingCheck ==
    result.op = "Tile" =>
        LET c == ClaimedTileCheck(result.a)
        IN  c.fails => result.kind = c.kind /\ result.msg = c.msg

\* The precedence of pixels_from_microns as the claim lists it.
ClaimedPfmError(m, l, w) ==
    IF ~IsInt(m) /\ m.t # "float" THEN Claimed("TypeError", "Microns must be a float.")
    ELSE IF ~IsInt(l) THEN Claimed("TypeError", "Level must be an integer.")
    ELSE IF l.i < 0 \/ l.i >= w.level_count
    THEN Claimed("ValueError",
                 "Level must be greater than or equal to zero and less than the level count of the WSI.")
    ELSE IF (m.t \in {"int", "bool"} /\ m.i <= 0) \/ (m.t = "float" /\ FLe(m.f, Zero))
    THEN Claimed("ValueError", "Microns must be greater than zero.")
    ELSE IF FEq(w.mpp, Zero) THEN Claimed("ValueError", "WSI has no pixel size information.")
    ELSE NoneClaimed

\* C2: pixels_from_microns reports its errors with the precedence microns type,
\* level type, level range, microns positivity, pixel size, for every
\* combination of arguments and every WSI.
C2_PfmErrorPrecedence ==
    result.op = "pixels_from_microns" =>
        LET c == ClaimedPfmError(result.m, result.l, wsi)
        IN  c.fails => result.kind = c.kind /\ result.msg = c.msg

\* microns is an int or a float above zero.
PositiveMicrons(m) ==
    \/ m.t \in {"int", "bool"} /\ m.i > 0
    \/ m.t = "bigint"
    \/ m.t = "float" /\ FGt(m.f, Zero)

ValidPfmCall(m, l, w) ==
    /\ ~FEq(w.mpp, Zero)
    /\ IsInt(l) /\ 0 <= l.i /\ l.i < w.level_count
    /\ PositiveMicrons(m)

\* C3: pixels_from_microns returns exactly when mpp # 0, the level is an int
\* in range and microns is an int or float above zero, and then returns
\* microns / (mpp * level_downsamples[level]).
C3_PfmValue ==
    result.op = "pixels_from_microns" =>
        /\ (result.kind = "ok") = ValidPfmCall(result.m, result.l, wsi)
        /\ result.kind = "ok" /\ result.m.t # "bigint" =>
              LET microns == IF result.m.t = "float" THEN result.m.f ELSE F(result.m.i, 1)
                  pitch == FMul(wsi.mpp, wsi.level_downsamples[result.l.i + 1])
              IN  FEq(FMul(result.val, pitch), microns)

\* C4: WSI(path) raises TypeError for a path that is no str before it reaches
\* the filesystem or OpenSlide, raises FileNotFoundError for a str path that
\* does not exist without calling OpenSlide, and in both cases the caller gets
\* no object.
C4_State ==
    /\ fsTouched => arg.t = "str"
    /\ libCalled => arg.t = "str" /\ exists(resolve(arg)) /\ fsTouched
    /\ pc = "idle" /\ result.op = "WSI" /\ arg.t # "str" =>
          /\ result.kind = "TypeError"
          /\ result.msg = "Path must be a string."
          /\ ~fsTouched /\ ~libCalled /\ ~slideOpen
          /\ self = NoSelf
    /\ pc = "idle" /\ result.op = "WSI" /\ arg.t = "str" /\ ~exists(resolve(arg)) =>
          /\ result.kind = "FileNotFoundError"
          /\ result.msg = "File not found."
          /\ ~libCalled /\ ~slideOpen
          /\ self = NoSelf

C5_MppDerivation ==
    wsi.cls = "WSI" =>
        LET px == wsiSrc.properties["openslide.mpp-x"]
            py == wsiSrc.properties["openslide.mpp-y"]
        IN  /\ wsi.mpp_x = (IF px.some THEN float_of_str(px.s) ELSE Zero)
            /\ wsi.mpp_y = (IF py.some THEN float_of_str(py.s) ELSE Zero)
            /\ FEq(wsi.mpp_x, wsi.mpp_y) /\ FGt(wsi.mpp_x, Zero) => wsi.mpp = wsi.mpp_x
            /\ ~(FEq(wsi.mpp_x, wsi.mpp_y) /\ FGt(wsi.mpp_x, Zero)) => wsi.mpp = Zero
            /\ ~px.some \/ ~py.some => wsi.mpp = Zero
            /\ ~FLt(wsi.mpp, Zero) /\ ~wsi.mpp.nan
            /\ FGt(wsi.mpp, Zero) => FEq(wsi.mpp, wsi.mpp_x) /\ FEq(wsi.mpp, wsi.mpp_y)

\* A WSI read from a slide whose two pixel sizes are positive and differ.
C5_Witness ==
    /\ wsi.cls = "WSI"
    /\ FGt(wsi.mpp_x, Zero) /\ FGt(wsi.mpp_y, Zero) /\ ~FEq(wsi.mpp_x, wsi.mpp_y)
    /\ wsi.mpp = Zero

Checks1to9Pass(a) ==
    /\ a.image.t = "ndarray" /\ Len(a.image.shape) = 3
    /\ IsInt(a.y_start) /\ a.y_start.i >= 0
    /\ IsInt(a.x_start) /\ a.x_start.i >= 0
    /\ IsInt(a.level) /\ a.parent_wsi.cls = "WSI"
    /\ 0 <= a.level.i /\ a.level.i < a.parent_wsi.level_count

\* C6: once checks 1-9 pass, every uint8 (uint16) buffer is accepted and stored
\* as its elements divided by 255 (65535), a floating buffer is stored as it
\* is, and any other element type raises the dtype TypeError.
C6_DtypeNormalization ==
    result.op = "Tile" /\ Checks1to9Pass(result.a) =>
        LET image == result.a.image
            stored == heap[tile.image]
        IN  /\ image.dtype = "uint8" =>
                  /\ result.kind = "ok"
                  /\ stored.elems = [i \in DOMAIN image.elems |-> F(image.elems[i].n, 255)]
            /\ image.dtype = "uint16" =>
                  /\ result.kind = "ok"
                  /\ stored.elems = [i \in DOMAIN image.elems |-> F(image.elems[i].n, 65535)]
            /\ image.dtype \in FloatDTypes /\ result.kind = "ok" => stored.elems = image.elems
            /\ image.dtype \notin ({"uint8", "uint16"} \cup FloatDTypes) =>
                  /\ result.kind = "TypeError"
                  /\ result.msg = "Image must be a of a compatible dtype."

\* C7: a constructed Tile keeps the field values set at construction whatever
\* the caller does with the arguments it passed, and stays valid: a 3-axis
\* float image with every element in [0,1], non-negative offsets, a level
\* below the parent's level count, num_channels the size of the last axis.
C7_TileImmutableValid ==
    tile.cls = "Tile" =>
        LET v == TileView(tile, heap)
        IN  /\ v = tile0
            /\ v.image.t = "ndarray" /\ Len(v.image.shape) = 3
            /\ v.image.dtype \in FloatDTypes
            /\ \A x \in Elems(v.image) : FLe(Zero, x) /\ FLe(x, One)
            /\ v.y_start.i >= 0 /\ v.x_start.i >= 0
            /\ 0 <= v.level.i /\ v.level.i < v.parent_wsi.level_count
            /\ v.num_channels = v.image.shape[3]

\* C8: pixels_from_microns and Tile construction, whatever their outcome, leave
\* every field of the WSI unchanged and never call OpenSlide; so the recorded
\* outcome of pixels_from_microns is the one the same call gives on the WSI as
\* it is now.
C8_WSIFrame ==
    /\ [](result.op = "pixels_from_microns" =>
            /\ wsi = set_mpp(set_meta(wsi, wsiSrc), wsiSrc)
            /\ PfmRes(pfm_outcome(wsi, result.m, result.l), result.m, result.l) = result)
    /\ [][result'.op \in {"pixels_from_microns", "Tile"} =>
            /\ wsi' = wsi
            /\ opens' = opens
            /\ slideOpen' = slideOpen /\ ~slideOpen
            /\ libCalled' = libCalled /\ fsTouched' = fsTouched]_vars

\* Both operations have run on a constructed WSI: a Tile exists and a
\* conversion has returned.
C8_Witness ==
    /\ wsi.cls = "WSI" /\ tile.cls = "Tile" /\ tile.parent_wsi = wsi
    /\ result.op = "pixels_from_microns" /\ result.kind = "ok"
    /\ opens = 1

FixedMessages ==
    { "Path must be a string.", "File not found.", "Microns must be a float.",
      "Level must be an integer.",
      "Level must be greater than or equal to zero and less than the level count of the WSI.",
      "Microns must be greater than zero.", "WSI has no pixel size information.",
      "Image must be a numpy array.", "Image must be a 3D numpy array.",
      "Y start must be an integer.", "Y start must be greater than or equal to zero.",
      "X start must be an integer.", "X start must be greater than or equal to zero.",
      "Parent WSI must be a WSI object.",
      "Level must be greater than or equal to zero and less than the level count of the parent WSI.",
      "Image must be a of a compatible dtype.", "Image must be normalized to [0, 1]." }

\* C9: every failure is a TypeError or a ValueError carrying one of the fixed
\* messages.
C9_TwoErrorKinds ==
    result.kind \notin {"ok", "running"} =>
        /\ result.kind \in {"TypeError", "ValueError"}
        /\ result.msg \in FixedMessages

\* C10: the slide handle is open only inside WSI.__init__, only after the path
\* type check and the existence check have passed, and it is closed when the
\* constructor returns or raises, also when a property read fails.
C10_HandleScoped ==
    /\ slideOpen =>
          /\ pc \in {"read_meta", "read_mpp", "exit"}
          /\ arg.t = "str" /\ exists(resolve(arg))
          /\ fsTouched /\ libCalled
    /\ pc \in {"idle", "resolve", "open"} => ~slideOpen

\* A property read failed inside the `with` block, and the handle is closed
\* while a Tile and an earlier WSI exist.
C10_Witness ==
    /\ pc = "idle" /\ result.op = "WSI"
    /\ result.kind \in {"OpenSlideError", "ValueError"}
    /\ libCalled /\ ~slideOpen
    /\ wsi.cls = "WSI"

====
